---- MODULE Spec2Model ----
(***************************************************************************)
(* Model of arc_accounting_python/accounting.py: the date-range parser     *)
(* (parse_startend, parse_date, next_datetime, datetime_defaults), the     *)
(* core-hour calculation (core_hours with backup_node_mpc) and the         *)
(* aggregation loop of main.                                               *)
(*                                                                         *)
(* Representation choices, all forced by TLC's 32-bit integers:            *)
(*  - a Python str is a sequence of one-character strings;                 *)
(*  - None and the empty string are both the empty sequence where the code *)
(*    only tests truthiness (args.date, the regex groups);                 *)
(*  - seconds since the epoch are a pair [d, s] = d * 86400 + s with       *)
(*    0 <= s < 86400 (epoch(4000-01-01) does not fit 32 bits);             *)
(*  - a byte count is a pair [hi, lo] = hi * 2^20 + lo with 0 <= lo < 2^20  *)
(*    (sge.number("64G") does not fit 32 bits).                            *)
(* int(dt.strftime('%s')) is modelled for a process whose local time zone   *)
(* is UTC, the zone the --date help text documents.  The strings tried     *)
(* hold ASCII only and no newline, so \d is [0-9] and $ is the end of the   *)
(* string.  Records are taken as record_modify leaves them.                *)
(***************************************************************************)
EXTENDS Integers, Sequences, FiniteSets, TLC

VARIABLES
    pc,               \* position of the program: see the actions
    args,             \* the command-line filters: skipqueues, queues, ...
    date,             \* args.date
    start_time,       \* global start_time (accounting.py:148)
    end_time,         \* global end_time
    record,           \* the record handed to core_hours / the loop body
    result,           \* what core_hours returned for `record`
    folded,           \* the records the loop of main has folded, in order
    owners,           \* main's owners dict: owner -> user -> totals
    users,            \* main's users dict
    owner_summaries,  \* main's owner_summaries dict
    warnings          \* number of warnings printed to stderr

vars == <<pc, args, date, start_time, end_time, record, result, folded,
          owners, users, owner_summaries, warnings>>

(***************************************************************************)
(* Strings                                                                 *)
(***************************************************************************)
Digit == <<"0", "1", "2", "3", "4", "5", "6", "7", "8", "9">>

IsDigit(c) == \E i \in 1..10 : Digit[i] = c

DigitVal(c) == (CHOOSE i \in 1..10 : Digit[i] = c) - 1

\* int(e) of a string of decimal digits
RECURSIVE ToInt(_)
ToInt(s) ==
    IF s = <<>> THEN 0
    ELSE 10 * ToInt(SubSeq(s, 1, Len(s) - 1)) + DigitVal(s[Len(s)])

\* the decimal string of n, zero-padded to w characters
RECURSIVE Pad(_, _)
Pad(n, w) == IF w = 0 THEN <<>> ELSE Append(Pad(n \div 10, w - 1), Digit[(n % 10) + 1])

\* length of the longest prefix of s[from..] made of digits: what \d+ consumes
RECURSIVE DigitRun(_, _)
DigitRun(s, from) ==
    IF from <= Len(s) /\ IsDigit(s[from]) THEN 1 + DigitRun(s, from + 1) ELSE 0

None == <<>>

(***************************************************************************)
(* time_startend_def = ^(\d+)?(-(\d+)?)?$ : the match object, with the     *)
(* groups that did not take part as None.                                  *)
(***************************************************************************)
time_startend_def(s) ==
    LET k  == DigitRun(s, 1)
        g1 == SubSeq(s, 1, k)
    IN  IF k = Len(s)
        THEN [matched |-> TRUE, g1 |-> g1, g2 |-> None, g3 |-> None]
        ELSE IF s[k + 1] = "-"
             THEN LET j == DigitRun(s, k + 2)
                  IN  IF k + 1 + j = Len(s)
                      THEN [matched |-> TRUE, g1 |-> g1,
                            g2 |-> SubSeq(s, k + 1, Len(s)),
                            g3 |-> SubSeq(s, k + 2, Len(s))]
                      ELSE [matched |-> FALSE, g1 |-> None, g2 |-> None, g3 |-> None]
             ELSE [matched |-> FALSE, g1 |-> None, g2 |-> None, g3 |-> None]

(***************************************************************************)
(* datetime_def = ^(\d{4})(\d{2})?(\d{2})?(\d{2})?(\d{2})?(\d{2})?$        *)
(* Each optional group is greedy, so the string matches exactly when it is *)
(* 4, 6, 8, 10, 12 or 14 digits.                                           *)
(***************************************************************************)
datetime_def(s) ==
    /\ DigitRun(s, 1) = Len(s)
    /\ Len(s) \in {4, 6, 8, 10, 12, 14}

\* parse_date: the integers of the groups that matched, or None
ParseDateTuple(s) ==
    [i \in 1..((Len(s) - 2) \div 2) |->
        IF i = 1 THEN ToInt(SubSeq(s, 1, 4))
        ELSE ToInt(SubSeq(s, 2 * i + 1, 2 * i + 2))]

parse_date(s) ==
    IF s # None /\ datetime_def(s)
    THEN [some |-> TRUE, t |-> ParseDateTuple(s)]
    ELSE [some |-> FALSE, t |-> <<>>]

\* datetime_defaults: fill in year, month, day
datetime_defaults(t) ==
    LET t1 == IF Len(t) < 1 THEN Append(t, 1970) ELSE t
        t2 == IF Len(t1) < 2 THEN Append(t1, 1) ELSE t1
        t3 == IF Len(t2) < 3 THEN Append(t2, 1) ELSE t2
    IN  t3

(***************************************************************************)
(* datetime.datetime, dateutil.relativedelta, datetime.timedelta           *)
(***************************************************************************)
MINYEAR == 1
MAXYEAR == 9999
SecondsPerDay == 24 * 3600

IsLeap(y) == (y % 4 = 0) /\ ((y % 100 # 0) \/ (y % 400 = 0))

DaysInMonth(y, m) ==
    IF m = 2 THEN (IF IsLeap(y) THEN 29 ELSE 28)
    ELSE IF m \in {4, 6, 9, 11} THEN 30 ELSE 31

RECURSIVE DaysBeforeMonth(_, _)
DaysBeforeMonth(y, m) ==
    IF m = 1 THEN 0 ELSE DaysBeforeMonth(y, m - 1) + DaysInMonth(y, m - 1)

DaysBeforeYear(y) ==
    LET p == y - 1 IN 365 * p + (p \div 4) - (p \div 100) + (p \div 400)

\* proleptic Gregorian ordinal, 0001-01-01 is day 1
Ordinal(y, m, d) == DaysBeforeYear(y) + DaysBeforeMonth(y, m) + d

EpochOrdinal == Ordinal(1970, 1, 1)

\* datetime.datetime applied to t: t has 3 to 6 components; missing ones are 0.
\* ok is FALSE where the constructor raises ValueError.
Field(t, i) == IF i <= Len(t) THEN t[i] ELSE 0

DateTime(t) ==
    LET ok == /\ t[1] >= MINYEAR /\ t[1] <= MAXYEAR
              /\ t[2] >= 1 /\ t[2] <= 12
              /\ t[3] >= 1 /\ t[3] <= DaysInMonth(t[1], t[2])
              /\ Field(t, 4) <= 23
              /\ Field(t, 5) <= 59
              /\ Field(t, 6) <= 59
    IN  [ok |-> ok, Y |-> t[1], M |-> t[2], D |-> t[3],
         h |-> Field(t, 4), m |-> Field(t, 5), s |-> Field(t, 6)]

\* int(dt.strftime('%s')) as [d, s]: d days and s seconds after the epoch
Epoch(dt) ==
    [d |-> Ordinal(dt.Y, dt.M, dt.D) - EpochOrdinal,
     s |-> dt.h * 3600 + dt.m * 60 + dt.s]

\* an epoch value plus n seconds, 0 <= n <= 86400
AddSeconds(e, n) ==
    [d |-> e.d + ((e.s + n) \div SecondsPerDay), s |-> (e.s + n) % SecondsPerDay]

MaxEpochDay == Ordinal(MAXYEAR, 12, 31) - EpochOrdinal

\* dt + timedelta: OverflowError when the sum is past 9999-12-31
TimedeltaOk(e) == e.d <= MaxEpochDay

Min(a, b) == IF a < b THEN a ELSE b

\* dt + relativedelta(years=1): the day is clamped to the month's length
PlusYear(dt) ==
    [dt EXCEPT !.Y = dt.Y + 1, !.D = Min(dt.D, DaysInMonth(dt.Y + 1, dt.M))]

\* dt + relativedelta(months=1)
PlusMonth(dt) ==
    LET y == IF dt.M = 12 THEN dt.Y + 1 ELSE dt.Y
        m == IF dt.M = 12 THEN 1 ELSE dt.M + 1
    IN  [dt EXCEPT !.Y = y, !.M = m, !.D = Min(dt.D, DaysInMonth(y, m))]

(***************************************************************************)
(* next_datetime: the dict `case` is built eagerly, so all six  *)
(* sums are evaluated and any one of them raising makes the call raise.    *)
(***************************************************************************)
\* mutant of case: a year is 365 days and a month 30 days
caseFixedLength(t1) ==
    LET e1 == Epoch(t1)
    IN  [i \in 1..6 |->
           CASE i = 1 -> [d |-> e1.d + 365, s |-> e1.s]
             [] i = 2 -> [d |-> e1.d + 30, s |-> e1.s]
             [] i = 3 -> AddSeconds(e1, 86400)
             [] i = 4 -> AddSeconds(e1, 3600)
             [] i = 5 -> AddSeconds(e1, 60)
             [] i = 6 -> AddSeconds(e1, 1)]

case(t1) ==
    LET e1 == Epoch(t1)
    IN  [i \in 1..6 |->
           CASE i = 1 -> Epoch(PlusYear(t1))
             [] i = 2 -> Epoch(PlusMonth(t1))
             [] i = 3 -> AddSeconds(e1, 86400)
             [] i = 4 -> AddSeconds(e1, 3600)
             [] i = 5 -> AddSeconds(e1, 60)
             [] i = 6 -> AddSeconds(e1, 1)]

next_datetime(t) ==
    LET t1 == DateTime(datetime_defaults(t))
        ok == /\ t1.ok
              /\ PlusYear(t1).Y <= MAXYEAR
              /\ PlusMonth(t1).Y <= MAXYEAR
              /\ \A i \in 3..6 : TimedeltaOk(case(t1)[i])
    IN  IF ok THEN [ok |-> TRUE, e |-> case(t1)[Len(t)]]
        ELSE [ok |-> FALSE, e |-> [d |-> 0, s |-> 0]]

\* Maximum date to report on
max_date == <<"4", "0", "0", "0", "0", "1", "0", "1">>

Zero == [d |-> 0, s |-> 0]

Raise == [ok |-> FALSE, start |-> Zero, end |-> Zero]

(***************************************************************************)
(* parse_startend(date_str): ok is FALSE where the call raises.            *)
(***************************************************************************)
DefaultEnd == Epoch(DateTime(parse_date(max_date).t))

\* mutant of EndArg: the groups are tried in the wrong order
EndArgStartFirst(r) ==
    IF r.g1 # None THEN r.g1
    ELSE IF r.g3 # None THEN r.g3
    ELSE max_date

EndArg(r) ==
    IF r.g3 # None THEN r.g3
    ELSE IF r.g2 # None THEN max_date
    ELSE r.g1

parse_startend(date_str) ==
    LET r == time_startend_def(date_str)
    IN  IF date_str # None /\ r.matched
        THEN LET a  == parse_date(r.g1)
                 sd == DateTime(datetime_defaults(a.t))
                 b  == parse_date(EndArg(r))
                 n  == next_datetime(b.t)
             IN  IF r.g1 # None /\ ~a.some THEN Raise
                 ELSE IF r.g1 # None /\ ~sd.ok THEN Raise
                 ELSE IF ~b.some THEN Raise
                 ELSE IF ~n.ok THEN Raise
                 ELSE [ok |-> TRUE,
                       start |-> IF r.g1 # None THEN Epoch(sd) ELSE Zero,
                       end |-> n.e]
        ELSE [ok |-> TRUE, start |-> Zero, end |-> DefaultEnd]

(***************************************************************************)
(* Byte counts: [hi, lo] stands for hi * 2^20 + lo bytes, 0 <= lo < 2^20.   *)
(***************************************************************************)
Mi == 1024 * 1024

Bytes(hi, lo) == [hi |-> hi, lo |-> lo]

QIsZero(q) == q.hi = 0 /\ q.lo = 0

QLe(a, b) == a.hi < b.hi \/ (a.hi = b.hi /\ a.lo <= b.lo)

\* q // c for an int c, 0 < c < 2048
QFloorDiv(q, c) ==
    LET rem == (q.hi % c) * Mi + q.lo
    IN  Bytes((q.hi \div c) + ((rem \div c) \div Mi), (rem \div c) % Mi)

\* k * q for an int k, 0 <= k < 2048
QMul(k, q) == Bytes(k * q.hi + ((k * q.lo) \div Mi), (k * q.lo) % Mi)

\* math.ceil(a / float(b)) for b of at least 2^20 bytes: the least k with
\* k * b >= a.  (The quotients met here are far from the 2^53 where the
\* float division could round across an integer.)
QCeilDiv(a, b) ==
    CHOOSE k \in 0..((a.hi \div b.hi) + 1) :
        /\ QLe(a, QMul(k, b))
        /\ k = 0 \/ ~QLe(a, QMul(k - 1, b))

(***************************************************************************)
(* The sge module: number, category_resource, node_type.                   *)
(***************************************************************************)
NoValue == [some |-> FALSE, v |-> Bytes(0, 0)]

Some(q) == [some |-> TRUE, v |-> q]

\* sge.number: a decimal count with an optional K/M/G/T suffix, in bytes;
\* None for None
Number(s) ==
    IF s = None THEN NoValue
    ELSE LET k   == DigitRun(s, 1)
             n   == ToInt(SubSeq(s, 1, k))
             suf == SubSeq(s, k + 1, Len(s))
         IN  CASE suf = <<"T">> -> Some(Bytes(n * Mi, 0))
               [] suf = <<"G">> -> Some(Bytes(n * 1024, 0))
               [] suf = <<"M">> -> Some(Bytes(n, 0))
               [] suf = <<"K">> -> Some(Bytes(n \div 1024, (n % 1024) * 1024))
               [] OTHER         -> Some(Bytes(n \div Mi, n % Mi))

\* sge.category_resource(category, name): the value the category requests
\* for the resource, or None
category_resource(category, name) == category[name]

\* the node types sge.node_type knows, with their descriptors
NT24 == <<"2","4","c","o","r","e","-","1","2","8","G">>
NT16 == <<"1","6","c","o","r","e","-","2","5","6","G">>
NT40 == <<"4","0","c","o","r","e","-","1","9","2","G">>

NodeTypes ==
    [n \in {NT24, NT16, NT40} |->
        CASE n = NT24 -> [num_pe |-> <<"2", "4">>, memory |-> <<"1", "2", "8", "G">>]
          [] n = NT16 -> [num_pe |-> <<"1", "6">>, memory |-> <<"2", "5", "6", "G">>]
          [] n = NT40 -> [num_pe |-> <<"4", "0">>, memory |-> <<"1", "9", "2", "G">>]]

\* sge.node_type(nt, key): the descriptor's value, None for an unknown type
node_type(nt, key) ==
    IF nt \in DOMAIN NodeTypes THEN NodeTypes[nt][key] ELSE None

(***************************************************************************)
(* backup_node_mpc: each regex is a set of alternatives, each alternative  *)
(* a sequence of character classes; re.match anchors at the start only.    *)
(***************************************************************************)
D09 == {"0", "1", "2", "3", "4", "5", "6", "7", "8", "9"}

GiB(n) == Bytes(n * 1024, 0)

backup_node_mpc == <<
    [regex |-> {<<{"h"}, {"7"}, {"s"}, {"3"}, {"b"}, {"1"}, {"5", "6"}>>},
     mpc |-> QFloorDiv(GiB(64), 24)],
    [regex |-> {<<{"h"}, {"1", "2", "3", "6", "7"}, {"s"}>>},
     mpc |-> QFloorDiv(GiB(24), 12)],
    [regex |-> {<<{"d"}, {"c"}, {"1", "2", "3", "4"}, {"s"}>>},
     mpc |-> QFloorDiv(GiB(128), 24)],
    [regex |-> {<<{"c"}, {"2"}, {"s"}, {"0"}, {"b"}, {"0", "1", "2", "3"}, {"n"}>>},
     mpc |-> QFloorDiv(GiB(24), 8)],
    [regex |-> {<<{"c"}, {"1", "2", "3"}, {"s"}>>},
     mpc |-> QFloorDiv(GiB(12), 8)],
    [regex |-> {<<{"s"}, {"m"}, {"p"}, {"1", "2", "3", "4"}>>},
     mpc |-> QFloorDiv(GiB(128), 16)],
    [regex |-> {<<{"g"}, {"8"}, {"s"}, {"7", "8", "9"}, {"n"}>>,
                <<{"g"}, {"8"}, {"s"}, {"1"}, {"0"}, {"n"}>>},
     mpc |-> QFloorDiv(GiB(256), 16)],
    [regex |-> {<<{"g"}, D09, {"s"}>>},
     mpc |-> QFloorDiv(GiB(64), 16)],
    [regex |-> {<<{"h"}, {"b"}, {"0"}, {"1"}, {"s"}>>},
     mpc |-> QFloorDiv(GiB(256), 20)],
    [regex |-> {<<{"h"}, {"b"}, {"0"}, {"2"}, {"n"}>>},
     mpc |-> QFloorDiv(GiB(3 * 1024), 48)] >>

\* b['re'].match(hostname)
ReMatch(regex, s) ==
    \E alt \in regex :
        /\ Len(alt) <= Len(s)
        /\ \A i \in 1..Len(alt) : s[i] \in alt[i]

\* the loop of core_hours over backup_node_mpc from rule i on, mem_core
\* being the value on entry
RECURSIVE BackupLoop(_, _, _)
BackupLoop(hostname, i, mem_core) ==
    IF i > Len(backup_node_mpc) THEN mem_core
    ELSE BackupLoop(hostname, i + 1,
                    IF ReMatch(backup_node_mpc[i].regex, hostname)
                    THEN Some(backup_node_mpc[i].mpc)
                    ELSE mem_core)

\* "not mem_core": None or 0
Falsy(q) == ~q.some \/ QIsZero(q.v)

\* the primary path: memory // cores of the record's node type
PrimaryMemCore(category) ==
    LET nt     == category_resource(category, "node_type")
        cores  == Number(node_type(nt, "num_pe"))
        memory == Number(node_type(nt, "memory"))
    IN  IF nt # None /\ ~Falsy(cores) /\ ~Falsy(memory)
        THEN Some(QFloorDiv(memory.v, cores.v.lo))   \* a core count is below 2^20
        ELSE NoValue

MemCore(rec) ==
    LET p == PrimaryMemCore(rec.category)
    IN  IF Falsy(p) THEN BackupLoop(rec.hostname, 1, p) ELSE p

MemReq(rec) ==
    LET m == category_resource(rec.category, "h_vmem")
    IN  IF m # None THEN Number(m) ELSE NoValue

(***************************************************************************)
(* core_hours(record): time and time_adj as returned, with the mem_core it *)
(* used and the number of warnings it printed; ok is FALSE where the       *)
(* division raises ZeroDivisionError.                                      *)
(***************************************************************************)
\* mutant of core_hours: the warning of the else branch is not printed
core_hoursSilent(rec) ==
    LET time     == rec.ru_wallclock * rec.slots
        mem_core == MemCore(rec)
        mem_req  == MemReq(rec)
    IN  IF mem_req.some /\ mem_core.some /\ ~QIsZero(mem_core.v)
        THEN [ok |-> TRUE, time |-> time,
              time_adj |-> time * QCeilDiv(mem_req.v, mem_core.v),
              mem_core |-> mem_core, warned |-> 0]
        ELSE [ok |-> TRUE, time |-> time, time_adj |-> time,
              mem_core |-> mem_core, warned |-> 0]

core_hours(rec) ==
    LET time     == rec.ru_wallclock * rec.slots
        mem_core == MemCore(rec)
        mem_req  == MemReq(rec)
    IN  IF mem_req.some /\ mem_core.some
        THEN IF QIsZero(mem_core.v)
             THEN [ok |-> FALSE, time |-> time, time_adj |-> time,
                   mem_core |-> mem_core, warned |-> 0]
             ELSE [ok |-> TRUE, time |-> time,
                   time_adj |-> time * QCeilDiv(mem_req.v, mem_core.v),
                   mem_core |-> mem_core, warned |-> 0]
        ELSE [ok |-> TRUE, time |-> time, time_adj |-> time,
              mem_core |-> mem_core, warned |-> 1]

(***************************************************************************)
(* record_filter(record), with the command-line filters in a               *)
(***************************************************************************)
TLe(a, b) == a.d < b.d \/ (a.d = b.d /\ a.s <= b.s)

TLt(a, b) == a.d < b.d \/ (a.d = b.d /\ a.s < b.s)

\* mutant of record_filter: <= where the code has <, a job that ends in
\* the first second of the range is dropped
record_filterStrict(rec, a, st, en) ==
    IF TLe(rec.end_time, st) \/ TLe(en, rec.start_time) THEN FALSE
    ELSE IF a.skipqueues # {} /\ rec.qname \in a.skipqueues THEN FALSE
    ELSE IF a.queues # {} /\ rec.qname \notin a.queues THEN FALSE
    ELSE IF a.skipowners # {} /\ rec.equip_owner \in a.skipowners THEN FALSE
    ELSE IF a.owners # {} /\ rec.equip_owner \notin a.owners THEN FALSE
    ELSE TRUE

record_filter(rec, a, st, en) ==
    IF TLt(rec.end_time, st) \/ TLe(en, rec.start_time) THEN FALSE
    ELSE IF a.skipqueues # {} /\ rec.qname \in a.skipqueues THEN FALSE
    ELSE IF a.queues # {} /\ rec.qname \notin a.queues THEN FALSE
    ELSE IF a.skipowners # {} /\ rec.equip_owner \in a.skipowners THEN FALSE
    ELSE IF a.owners # {} /\ rec.equip_owner \notin a.owners THEN FALSE
    ELSE TRUE

(***************************************************************************)
(* The body of main's loop and the two summaries                           *)
(***************************************************************************)
ZeroTotals == [jobs |-> 0, time |-> 0, time_adj |-> 0]

EmptyDict == [k \in {} |-> ZeroTotals]

\* lines 159-166: the entry is created if absent and its jobs counted
CountJob(ow, rec) ==
    LET owner == rec.equip_owner
        user  == rec.owner
        ow1   == IF owner \notin DOMAIN ow THEN ow @@ (owner :> EmptyDict) ELSE ow
        ow2   == IF user \notin DOMAIN ow1[owner]
                 THEN [ow1 EXCEPT ![owner] = @ @@ (user :> ZeroTotals)]
                 ELSE ow1
    IN  [ow2 EXCEPT ![owner][user].jobs = @ + 1]

\* mutant of AddTime: = where the code has +=
AddTimeAssign(ow, rec, t) ==
    [ow EXCEPT ![rec.equip_owner][rec.owner] =
        [jobs     |-> @.jobs,
         time     |-> t.time,
         time_adj |-> t.time_adj]]

\* lines 169-170: t = core_hours(record) is added to the entry
AddTime(ow, rec, t) ==
    [ow EXCEPT ![rec.equip_owner][rec.owner] =
        [jobs     |-> @.jobs,
         time     |-> @.time + t.time,
         time_adj |-> @.time_adj + t.time_adj]]

\* the loop body, lines 155-170
AddRecord(ow, rec, t) == AddTime(CountJob(ow, rec), rec, t)

\* the (owner, user) pairs the nested loops of lines 174-175 visit
Pairs(ow) == {<<o, u>> \in (DOMAIN ow) \X UNION {DOMAIN ow[o] : o \in DOMAIN ow} :
                 u \in DOMAIN ow[o]}

\* mutant of AddUser: = where the code has +=
AddUserAssign(us, user, e) ==
    LET us1 == IF user \notin DOMAIN us THEN us @@ (user :> ZeroTotals) ELSE us
    IN  [us1 EXCEPT ![user] = e]

\* users[user] += owners[owner][user], field by field
AddUser(us, user, e) ==
    LET us1 == IF user \notin DOMAIN us THEN us @@ (user :> ZeroTotals) ELSE us
    IN  [us1 EXCEPT ![user] =
            [jobs     |-> @.jobs + e.jobs,
             time     |-> @.time + e.time,
             time_adj |-> @.time_adj + e.time_adj]]

RECURSIVE UsersLoop(_, _, _)
UsersLoop(ow, todo, us) ==
    IF todo = {} THEN us
    ELSE LET p == CHOOSE p \in todo : TRUE
         IN  UsersLoop(ow, todo \ {p}, AddUser(us, p[2], ow[p[1]][p[2]]))

Users(ow) == UsersLoop(ow, Pairs(ow), EmptyDict)

\* owner_summaries[owner] accumulated over data.values()
RECURSIVE SummaryLoop(_, _, _)
SummaryLoop(data, todo, acc) ==
    IF todo = {} THEN acc
    ELSE LET u == CHOOSE u \in todo : TRUE
         IN  SummaryLoop(data, todo \ {u},
                [users    |-> acc.users + 1,
                 jobs     |-> acc.jobs + data[u].jobs,
                 time     |-> acc.time + data[u].time,
                 time_adj |-> acc.time_adj + data[u].time_adj])

OwnerSummaries(ow) ==
    [o \in DOMAIN ow |->
        SummaryLoop(ow[o], DOMAIN ow[o],
                    [users |-> 0, jobs |-> 0, time |-> 0, time_adj |-> 0])]

(***************************************************************************)
(* Inputs                                                                  *)
(***************************************************************************)
YearSpan == 4
MaxRecords == 3

\* years of the date strings tried: a run of ordinary years around a leap
\* year and a century, and the ends of what datetime accepts
Years == (2016..(2016 + YearSpan)) \cup {0, 1970, 2100, 4000, 9998, 9999}

Hyphen == <<"-">>

YearStrs == {Pad(y, 4) : y \in Years}

MonthStrs == {Pad(y, 4) \o Pad(m, 2) : y \in {2018, 2020, 9998}, m \in 0..13}

FineStrs == {
    <<"2","0","1","8","0","1","3","1">>,
    <<"2","0","2","0","0","2","2","9">>,
    <<"2","0","1","8","0","2","2","9">>,
    <<"2","0","1","8","0","1","3","1","2","3">>,
    <<"2","0","1","8","0","1","3","1","2","4">>,
    <<"2","0","1","8","0","1","3","1","2","3","5","9">>,
    <<"2","0","1","8","1","2","3","1","2","3","5","9","5","9">>,
    <<"2","0","1","8","0","1","3","1","2","3","5","9","6","0">> }

\* digit strings that are not dates: 3, 5 and 15 digits
OddStrs == {
    <<"2","0","1">>,
    <<"2","0","1","8","1">>,
    <<"2","0","1","8","0","1","3","1","2","3","5","9","5","9","0">> }

DateStrs == YearStrs \cup MonthStrs \cup FineStrs \cup OddStrs

Junk == {<<"x">>, <<" ">>, <<"/">>, <<"-", "-">>}

\* arguments the range grammar accepts
RangeArgs ==
    {None, Hyphen}
    \cup DateStrs
    \cup {a \o Hyphen : a \in DateStrs}
    \cup {Hyphen \o b : b \in DateStrs}
    \cup {a \o Hyphen \o b : a \in DateStrs, b \in DateStrs}

\* arguments the range grammar rejects
BadRangeArgs ==
    Junk
    \cup {a \o j : a \in YearStrs, j \in Junk}
    \cup {j \o a : a \in YearStrs, j \in Junk}
    \cup {a \o j \o b : a \in YearStrs, b \in YearStrs, j \in Junk}
    \cup {a \o Hyphen \o b \o Hyphen : a \in YearStrs, b \in YearStrs}

AllDates == RangeArgs \cup BadRangeArgs

NoFilter == [skipqueues |-> {}, queues |-> {}, skipowners |-> {}, owners |-> {},
             coreowners |-> FALSE]

CoreOwners == {"Arts", "ENG", "ENV", "ESSL", "FBS", "LUBS", "MAPS", "MEDH", "PVAC"}

NoCategory == [node_type |-> None, h_vmem |-> None]

NoRecord ==
    [name |-> "", owner |-> "", equip_owner |-> "", qname |-> "",
     hostname |-> None, category |-> NoCategory, ru_wallclock |-> 0, slots |-> 0,
     start_time |-> Zero, end_time |-> Zero]

NoResult == [ok |-> TRUE, time |-> 0, time_adj |-> 0, mem_core |-> NoValue, warned |-> 0]

Hostnames == {
    <<"h","7","s","3","b","1","5","n","1">>,
    <<"h","7","s","3","b","1","6","n","2">>,
    <<"h","7","s","3","b","1","4","n","1">>,
    <<"h","1","s","1","b","1","n","1">>,
    <<"h","4","s","1">>,
    <<"d","c","1","s","0","b","0","n","0">>,
    <<"c","2","s","0","b","0","n","1">>,
    <<"c","2","s","0","b","4","n","1">>,
    <<"c","1","s","0">>,
    <<"s","m","p","1">>,
    <<"g","8","s","7","n","1">>,
    <<"g","8","s","1","0","n","1">>,
    <<"g","8","s","1","n","1">>,
    <<"g","0","s","1">>,
    <<"h","b","0","1","s","1">>,
    <<"h","b","0","2","n","1">>,
    <<"l","o","g","i","n","1">>,
    <<"x","h","7","s","3","b","1","5">>,
    <<"h","7">> }

NodeTypeTags == {None, NT24, NT16, <<"m","y","s","t","e","r","y">>}

MemRequests == {
    None,
    <<"0">>,
    <<"5","1","2","M">>,
    <<"1","G">>,
    <<"2","G">>,
    <<"1","6","G">>,
    <<"4","0","G">>,
    <<"1","T">> }

Categories == [node_type : NodeTypeTags, h_vmem : MemRequests]

\* the records core_hours is tried on
CoreRecords ==
    {[NoRecord EXCEPT !.name = "job", !.hostname = h, !.category = c,
                      !.ru_wallclock = w, !.slots = n] :
        h \in Hostnames, c \in Categories, w \in {10, 3600}, n \in {1, 4}}

(***************************************************************************)
(* parse_startend on its own: one call on each argument                    *)
(***************************************************************************)
Idle ==
    /\ record = NoRecord
    /\ result = NoResult
    /\ folded = <<>>
    /\ owners = EmptyDict
    /\ users = EmptyDict
    /\ owner_summaries = EmptyDict
    /\ warnings = 0
    /\ start_time = Zero
    /\ end_time = Zero

InitDate ==
    /\ pc = "start"
    /\ args = NoFilter
    /\ date \in AllDates
    /\ Idle

\* main, lines 135-149: the argument defaults and parse_startend(args.date).
\* An exception nobody catches ends the program.
ParseArgs ==
    /\ pc = "start"
    /\ LET r == parse_startend(date)
       IN  /\ pc' = IF r.ok THEN "fold" ELSE "error"
           /\ start_time' = r.start
           /\ end_time' = r.end
    /\ args' = IF args.coreowners THEN [args EXCEPT !.owners = CoreOwners] ELSE args
    /\ UNCHANGED <<date, record, result, folded, owners, users, owner_summaries, warnings>>

SpecDate == InitDate /\ [][ParseArgs]_vars

(***************************************************************************)
(* core_hours on its own: one call on each record                          *)
(***************************************************************************)
InitCore ==
    /\ pc = "call"
    /\ args = NoFilter
    /\ date = None
    /\ record \in CoreRecords
    /\ result = NoResult
    /\ folded = <<>>
    /\ owners = EmptyDict
    /\ users = EmptyDict
    /\ owner_summaries = EmptyDict
    /\ warnings = 0
    /\ start_time = Zero
    /\ end_time = Zero

CallCoreHours ==
    /\ pc = "call"
    /\ LET t == core_hours(record)
       IN  /\ result' = t
           /\ warnings' = warnings + t.warned
           /\ pc' = IF t.ok THEN "returned" ELSE "error"
    /\ UNCHANGED <<args, date, start_time, end_time, record, folded, owners, users,
                   owner_summaries>>

SpecCore == InitCore /\ [][CallCoreHours]_vars

(***************************************************************************)
(* main: the arguments, then the loop over the records sge.records yields, *)
(* then the two summaries.  The records are as record_modify leaves them   *)
(* (equip_owner set).                                                      *)
(***************************************************************************)
Y2018 == <<"2","0","1","8">>

MainDates == {
    None,
    Y2018,
    Y2018 \o Hyphen,
    Hyphen \o Y2018,
    <<"2","0","1","8","0","6">>,
    Y2018 \o <<"x">>,
    <<"2","0","1","8","1">> }

ArgSets == {
    NoFilter,
    [NoFilter EXCEPT !.queues = {"std.q"}, !.skipowners = {"ENG"}],
    [NoFilter EXCEPT !.skipqueues = {"debug.q"}, !.coreowners = TRUE] }

At(y, m, d) == Epoch(DateTime(<<y, m, d>>))

G8S7 == <<"g","8","s","7","n","1">>
Login == <<"l","o","g","i","n","1">>
H7S3 == <<"h","7","s","3","b","1","5","n","1">>

Job(name, user, owner, q, host, nt, vmem, wall, slots, st, en) ==
    [name |-> name, owner |-> user, equip_owner |-> owner, qname |-> q,
     hostname |-> host, category |-> [node_type |-> nt, h_vmem |-> vmem],
     ru_wallclock |-> wall, slots |-> slots, start_time |-> st, end_time |-> en]

Records == {
    Job("j1", "alice", "ENV", "std.q", G8S7, None, <<"4","0","G">>, 3600, 4,
        At(2018, 3, 1), At(2018, 3, 2)),
    Job("j2", "alice", "ENG", "std.q", Login, None, <<"1","G">>, 100, 2,
        At(2018, 6, 1), At(2018, 6, 2)),
    Job("j3", "bob", "ENV", "debug.q", H7S3, NT24, <<"1","6","G">>, 50, 1,
        At(2018, 6, 30), At(2018, 7, 1)),
    Job("j4", "bob", "glomap", "std.q", H7S3, None, None, 7, 3,
        At(2018, 12, 31), At(2019, 1, 1)),
    Job("j5", "alice", "ENV", "std.q", G8S7, None, <<"1","G">>, 20, 1,
        At(2017, 12, 30), At(2017, 12, 31)),
    Job("j6", "bob", "ENG", "std.q", H7S3, None, <<"0">>, 30, 2,
        At(2017, 12, 31), At(2018, 1, 1)),
    Job("j7", "alice", "ENG", "debug.q", Login, NT24, <<"1","G">>, 40, 1,
        At(2019, 1, 1), At(2019, 1, 2)) }

Init ==
    /\ pc = "start"
    /\ args \in ArgSets
    /\ date \in MainDates
    /\ Idle

\* one record that record_filter accepts goes through the loop body
FoldRecord ==
    /\ pc = "fold"
    /\ Len(folded) < MaxRecords
    /\ \E rec \in Records :
        /\ record_filter(rec, args, start_time, end_time)
        /\ LET t == core_hours(rec)
           IN  /\ record' = rec
               /\ result' = t
               /\ warnings' = warnings + t.warned
               /\ owners' = IF t.ok THEN AddRecord(owners, rec, t)
                                    ELSE CountJob(owners, rec)
               /\ folded' = IF t.ok THEN Append(folded, rec) ELSE folded
               /\ pc' = IF t.ok THEN "fold" ELSE "error"
    /\ UNCHANGED <<args, date, start_time, end_time, users, owner_summaries>>

\* one record that record_filter rejects is dropped by sge.records
SkipRecord ==
    /\ pc = "fold"
    /\ \E rec \in Records :
        /\ ~record_filter(rec, args, start_time, end_time)
        /\ record' = rec
    /\ UNCHANGED <<pc, args, date, start_time, end_time, result, folded, owners,
                   users, owner_summaries, warnings>>

\* the input is exhausted: lines 172-192
Summarise ==
    /\ pc = "fold"
    /\ users' = Users(owners)
    /\ owner_summaries' = OwnerSummaries(owners)
    /\ pc' = "done"
    /\ UNCHANGED <<args, date, start_time, end_time, record, result, folded, owners,
                   warnings>>

Next == ParseArgs \/ FoldRecord \/ SkipRecord \/ Summarise

Spec == Init /\ [][Next]_vars

(***************************************************************************)
(* Properties                                                              *)
(***************************************************************************)
Returned == pc = "returned"

Parsed == pc = "fold"

\* the first rule of backup_node_mpc whose pattern matches, 0 if none does
FirstMatch(hostname) ==
    LET M == {i \in 1..Len(backup_node_mpc) :
                ReMatch(backup_node_mpc[i].regex, hostname)}
    IN  IF M = {} THEN 0 ELSE CHOOSE i \in M : \A j \in M : i <= j

MatchCount(hostname) ==
    Cardinality({i \in 1..Len(backup_node_mpc) :
                    ReMatch(backup_node_mpc[i].regex, hostname)})

\* C1: when the node_type path gives no memory-per-core, core_hours uses the
\* mpc of the first rule of backup_node_mpc that matches the hostname, also
\* for a hostname that later rules match too.
C1_FirstMatchWins ==
    (Returned /\ Falsy(PrimaryMemCore(record.category))
              /\ FirstMatch(record.hostname) # 0)
    => result.mem_core = Some(backup_node_mpc[FirstMatch(record.hostname)].mpc)

\* epoch(sentinel): 4000-01-01T00:00:00Z is 741442 days after the epoch
SentinelEpoch == [d |-> 741442, s |-> 0]

IsOpenEnded(s) ==
    /\ Len(s) >= 2
    /\ s[Len(s)] = "-"
    /\ datetime_def(SubSeq(s, 1, Len(s) - 1))

\* C2: for every open-ended range 'A-', parse_startend returns
\* end = epoch(max_date), the bound the absent argument gets, and
\* start = epoch(A).
C2_OpenEndIsSentinel ==
    (Parsed /\ IsOpenEnded(date))
    => /\ end_time = SentinelEpoch
       /\ start_time =
            Epoch(DateTime(datetime_defaults(parse_date(SubSeq(date, 1, Len(date) - 1)).t)))

\* the argument is [DATE][-[DATE]] with each DATE of 4, 6, ..., 14 digits
RECURSIVE CountHyphens(_)
CountHyphens(s) ==
    IF s = <<>> THEN 0
    ELSE (IF Head(s) = "-" THEN 1 ELSE 0) + CountHyphens(Tail(s))

IsDateString(s) ==
    /\ Len(s) \in {4, 6, 8, 10, 12, 14}
    /\ \A i \in 1..Len(s) : s[i] \in D09

WellFormed(s) ==
    /\ \A i \in 1..Len(s) : s[i] \in D09 \cup {"-"}
    /\ CountHyphens(s) <= 1
    /\ LET h == IF CountHyphens(s) = 0 THEN Len(s) + 1
                ELSE CHOOSE i \in 1..Len(s) : s[i] = "-"
           A == SubSeq(s, 1, h - 1)
           B == SubSeq(s, h + 1, Len(s))
       IN  /\ A = <<>> \/ IsDateString(A)
           /\ B = <<>> \/ IsDateString(B)

\* C3: a non-empty date argument outside the range grammar or the date
\* grammar ends main in an error: no range is returned and no record is
\* aggregated.
C3_MalformedFailsFast ==
    (date # None /\ ~WellFormed(date))
    => /\ pc \in {"start", "error"}
       /\ folded = <<>>

Range20182019 == <<"2","0","1","8","-","2","0","1","9">>

\* b - a in seconds, for epoch values less than 2^31 seconds apart
SecondsBetween(a, b) == (b.d - a.d) * 86400 + (b.s - a.s)

\* C4 as stated: parse_startend("2018-2019") returns 2018-01-01 (day 17532)
\* to 2019-01-01 (day 17897), 31536000 seconds apart.
C4_OneYear ==
    (Parsed /\ date = Range20182019)
    => /\ start_time = [d |-> 17532, s |-> 0]
       /\ end_time = [d |-> 17897, s |-> 0]
       /\ SecondsBetween(start_time, end_time) = 31536000

\* C4 amended: parse_startend("2018-2019") returns 2018-01-01 (day 17532) to
\* 2020-01-01 (day 18262), the whole of 2018 and 2019: 730 days,
\* 63072000 seconds.
C4_TwoYears ==
    (pc # "start" /\ date = Range20182019)
    => /\ Parsed
       /\ start_time = [d |-> 17532, s |-> 0]
       /\ end_time = [d |-> 18262, s |-> 0]
       /\ SecondsBetween(start_time, end_time) = 63072000

C4_Witness == Parsed /\ date = Range20182019

\* C5: every range parse_startend returns has start <= end.
C5_StartNotAfterEnd == Parsed => TLe(start_time, end_time)

\* the calendar date of the day n days after the epoch, by the era
\* arithmetic of the proleptic Gregorian calendar (400-year eras that
\* start on 1 March), for days from 0001-01-01 on
CivilFromDays(n) ==
    LET z   == n + 719468
        era == z \div 146097
        doe == z % 146097
        yoe == (doe - (doe \div 1460) + (doe \div 36524) - (doe \div 146096)) \div 365
        doy == doe - (365 * yoe + (yoe \div 4) - (yoe \div 100))
        mp  == (5 * doy + 2) \div 153
        dd  == doy - ((153 * mp + 2) \div 5) + 1
        mm  == IF mp < 10 THEN mp + 3 ELSE mp - 9
        yy  == yoe + era * 400 + (IF mm <= 2 THEN 1 ELSE 0)
    IN  <<yy, mm, dd>>

LeapYearC6(y) == IF y % 400 = 0 THEN TRUE ELSE IF y % 100 = 0 THEN FALSE ELSE y % 4 = 0

MonthLengthC6(y, m) ==
    <<31, IF LeapYearC6(y) THEN 29 ELSE 28, 31, 30, 31, 30, 31, 31, 30, 31, 30, 31>>[m]

IsYearOnly(s) == Len(s) = 4 /\ IsDateString(s)

IsYearMonth(s) == Len(s) = 6 /\ IsDateString(s)

\* C6: for a bare date D of year-only or year+month precision that
\* parse_startend returns a range for, start is the first second of that
\* calendar year or month in UTC and end the first second of the next one:
\* a year is 365 or 366 days by the leap rule, a month has its own length,
\* and month 12 ends on 1 January of the following year.
C6_WholePeriod ==
    LET y == ToInt(SubSeq(date, 1, 4))
        m == ToInt(SubSeq(date, 5, 6))
    IN  /\ (Parsed /\ IsYearOnly(date))
           => /\ start_time.s = 0 /\ end_time.s = 0
              /\ CivilFromDays(start_time.d) = <<y, 1, 1>>
              /\ CivilFromDays(end_time.d) = <<y + 1, 1, 1>>
              /\ end_time.d - start_time.d = (IF LeapYearC6(y) THEN 366 ELSE 365)
        /\ (Parsed /\ IsYearMonth(date))
           => /\ start_time.s = 0 /\ end_time.s = 0
              /\ CivilFromDays(start_time.d) = <<y, m, 1>>
              /\ CivilFromDays(end_time.d) =
                    (IF m = 12 THEN <<y + 1, 1, 1>> ELSE <<y, m + 1, 1>>)
              /\ end_time.d - start_time.d = MonthLengthC6(y, m)
        /\ (pc # "start" /\ (IsYearOnly(date) \/ IsYearMonth(date))
                         /\ y \in 1..9998
                         /\ (IsYearMonth(date) => m \in 1..12))
           => Parsed

\* a leap February and a December have been resolved
C6_Witness ==
    /\ Parsed
    /\ date \in {<<"2","0","2","0","0","2">>, <<"2","0","1","8","1","2">>,
                 <<"2","0","2","0">>, <<"2","1","0","0">>}

\* C6 as stated: every bare date of year-only or year+month precision gets
\* its whole calendar period.
C6_EveryPeriod ==
    LET y == ToInt(SubSeq(date, 1, 4))
        m == ToInt(SubSeq(date, 5, 6))
    IN  (pc # "start"
            /\ (IsYearOnly(date) \/ (IsYearMonth(date) /\ m \in 1..12))
            /\ y >= 1)
        => /\ Parsed
           /\ C6_WholePeriod

\* C7: for a record with an h_vmem request and a known memory-per-core,
\* raw = ru_wallclock * slots and adjusted = raw * ceil(request / mpc) with
\* a multiplier of at least 1, so adjusted >= raw.
C7_AdjustedAtLeastRaw ==
    (Returned /\ record.category.h_vmem # None /\ MemCore(record).some)
    => LET raw  == record.ru_wallclock * record.slots
           mult == QCeilDiv(Number(record.category.h_vmem).v, MemCore(record).v)
       IN  /\ result.time = raw
           /\ result.time_adj = raw * mult
           /\ mult >= 1
           /\ result.time_adj >= result.time

\* the memory request or the memory-per-core of the record is unknown
Undetermined(rec) ==
    \/ rec.category.h_vmem = None
    \/ /\ ~PrimaryMemCore(rec.category).some
       /\ MatchCount(rec.hostname) = 0

JobsOf(ow, rec) ==
    IF rec.equip_owner \in DOMAIN ow /\ rec.owner \in DOMAIN ow[rec.equip_owner]
    THEN ow[rec.equip_owner][rec.owner].jobs
    ELSE 0

\* C8: a record whose memory request or memory-per-core is unknown makes
\* core_hours print exactly one warning and return adjusted = raw without
\* error; the record is counted and the loop goes on.  (A step changes
\* owners exactly when it is the loop body.)
C8_WarnAndContinue ==
    [][(owners' # owners /\ Undetermined(record'))
       => /\ warnings' = warnings + 1
          /\ result'.ok
          /\ result'.time = record'.ru_wallclock * record'.slots
          /\ result'.time_adj = result'.time
          /\ pc' = "fold"
          /\ folded' = Append(folded, record')
          /\ JobsOf(owners', record') = JobsOf(owners, record') + 1]_vars

\* an undetermined record was folded and another record after it
C8_Witness ==
    /\ Len(folded) >= 2
    /\ Undetermined(folded[1])
    /\ warnings >= 1
    /\ pc = "done"

RECURSIVE SumOver(_, _)
SumOver(f, S) ==
    IF S = {} THEN 0
    ELSE LET x == CHOOSE x \in S : TRUE IN f[x] + SumOver(f, S \ {x})

Done == pc = "done"

OwnersOf(u) == {o \in DOMAIN owners : u \in DOMAIN owners[o]}

AllUsers == UNION {DOMAIN owners[o] : o \in DOMAIN owners}

\* C9: after main has folded the records, the jobs summed over
\* owner_summaries, the jobs summed over users and the number of records
\* folded are equal; each users[u] is the field-wise sum of owners[o][u]
\* over the owners u appears under; and the raw and adjusted totals over
\* owners equal those over users.
C9_StructuresAgree ==
    Done =>
    /\ SumOver([o \in DOMAIN owner_summaries |-> owner_summaries[o].jobs],
               DOMAIN owner_summaries) = Len(folded)
    /\ SumOver([u \in DOMAIN users |-> users[u].jobs], DOMAIN users) = Len(folded)
    /\ DOMAIN users = AllUsers
    /\ DOMAIN owner_summaries = DOMAIN owners
    /\ \A u \in DOMAIN users :
        /\ users[u].jobs = SumOver([o \in OwnersOf(u) |-> owners[o][u].jobs], OwnersOf(u))
        /\ users[u].time = SumOver([o \in OwnersOf(u) |-> owners[o][u].time], OwnersOf(u))
        /\ users[u].time_adj =
              SumOver([o \in OwnersOf(u) |-> owners[o][u].time_adj], OwnersOf(u))
    /\ SumOver([o \in DOMAIN owner_summaries |-> owner_summaries[o].time],
               DOMAIN owner_summaries)
       = SumOver([u \in DOMAIN users |-> users[u].time], DOMAIN users)
    /\ SumOver([o \in DOMAIN owner_summaries |-> owner_summaries[o].time_adj],
               DOMAIN owner_summaries)
       = SumOver([u \in DOMAIN users |-> users[u].time_adj], DOMAIN users)

\* some user has jobs under two owners
C9_Witness ==
    /\ Done
    /\ \E u \in DOMAIN users : Cardinality(OwnersOf(u)) >= 2 /\ users[u].time > 0

\* core_hours of each record of the input, tabulated
CoreHoursOf == [r \in Records |-> core_hours(r)]

\* main's loop over a whole sequence of accepted records
RECURSIVE FoldSeq(_, _)
FoldSeq(ow, seq) ==
    IF seq = <<>> THEN ow
    ELSE FoldSeq(AddRecord(ow, Head(seq), CoreHoursOf[Head(seq)]), Tail(seq))

Fold(seq) == FoldSeq(EmptyDict, seq)

AddTotals(a, b) ==
    [jobs |-> a.jobs + b.jobs, time |-> a.time + b.time,
     time_adj |-> a.time_adj + b.time_adj]

Totals(e) == [jobs |-> e.jobs, time |-> e.time, time_adj |-> e.time_adj]

At0(d, k) == IF k \in DOMAIN d THEN Totals(d[k]) ELSE ZeroTotals

\* the field-wise sum of two user -> totals maps
MergeFlat(a, b) ==
    [k \in (DOMAIN a) \cup (DOMAIN b) |-> AddTotals(At0(a, k), At0(b, k))]

\* the field-wise sum of two owner -> user -> totals maps
MergeOwners(a, b) ==
    [o \in (DOMAIN a) \cup (DOMAIN b) |->
        MergeFlat(IF o \in DOMAIN a THEN a[o] ELSE EmptyDict,
                  IF o \in DOMAIN b THEN b[o] ELSE EmptyDict)]

Permuted(seq, p) == [i \in 1..Len(seq) |-> seq[p[i]]]

SummaryTotals(sm) == [o \in DOMAIN sm |-> Totals(sm[o])]

\* C10: the maps main ends with do not depend on the order of the records,
\* and folding S1 ++ S2 gives the field-wise sum (jobs, time, time_adj per
\* owner and user key) of folding S1 and S2 apart.
C10_OrderAndPartition ==
    Done =>
    /\ \A p \in Permutations(1..Len(folded)) :
        LET ow == Fold(Permuted(folded, p))
        IN  /\ ow = owners
            /\ Users(ow) = users
            /\ OwnerSummaries(ow) = owner_summaries
    /\ \A k \in 0..Len(folded) :
        LET a == Fold(SubSeq(folded, 1, k))
            b == Fold(SubSeq(folded, k + 1, Len(folded)))
        IN  /\ MergeOwners(a, b) = owners
            /\ MergeFlat(Users(a), Users(b)) = users
            /\ MergeFlat(SummaryTotals(OwnerSummaries(a)),
                         SummaryTotals(OwnerSummaries(b)))
               = SummaryTotals(owner_summaries)

\* two different records of one owner and user were folded, and a third
C10_Witness ==
    /\ Done
    /\ Len(folded) >= 3
    /\ \E i, j \in 1..Len(folded) :
        /\ i < j
        /\ folded[i] # folded[j]
        /\ folded[i].owner = folded[j].owner
        /\ folded[i].equip_owner = folded[j].equip_owner
        /\ CoreHoursOf[folded[i]].time # CoreHoursOf[folded[j]].time

\* a is an earlier second than b
Earlier(a, b) == a.d < b.d \/ (a.d = b.d /\ a.s < b.s)

\* the record overlaps [start_time, end_time)
InRange(rec) ==
    /\ ~Earlier(rec.end_time, start_time)
    /\ Earlier(rec.start_time, end_time)

NoFilterGiven ==
    /\ args.skipqueues = {} /\ args.queues = {}
    /\ args.skipowners = {} /\ args.owners = {}

====
